---- MODULE Spec2Model ----
(***************************************************************************)
(* Model of src/script.js: the PlanetConfig record, the SolarSystem        *)
(* registry (createPlanet / updatePlanets) and the requestAnimationFrame   *)
(* loop (tick).                                                            *)
(*                                                                         *)
(* Numbers.  The program computes on JavaScript Numbers.  The model keeps  *)
(* every real quantity as an integer count of thousandths (radius 0.8 is   *)
(* 800, rotationSpeed 0.005 is 5, the sun's step 0.001 is 1) and colours   *)
(* as their 24-bit integer.  Arithmetic on these counts is exact: the      *)
(* rounding of IEEE-754 doubles is not part of the model.                  *)
(*                                                                         *)
(* Trigonometry.  Math.cos / Math.sin are periodic tables CosTable and     *)
(* SinTable (thousandths, one entry per twelfth of a turn); an angle is     *)
(* reduced modulo the table length before the lookup.                      *)
(***************************************************************************)
EXTENDS Integers, Sequences, FiniteSets

VARIABLES
    planets,      \* SolarSystem.planets: the Map, as a sequence of [name, value] in insertion order
    planetGroup,  \* SolarSystem.planetGroup.children, in insertion order
    group,        \* the THREE.Group objects made by createPlanet, indexed by identity
    mesh,         \* the planet THREE.Mesh objects made by createPlanet, indexed by identity
    sun,          \* SolarSystem.sun (its rotation)
    parameters,   \* the GUI-bound object {autoRotate, rotationSpeed}
    params,       \* the object literal handed to the latest `new PlanetConfig(...)`
    built,        \* the PlanetConfig constructed and not yet registered (<<>> when none)
    main,         \* position of the top-level script: "setup" before tick() of line 328, "loop" after
    now,          \* latest value returned by performance.now()
    time,         \* the `time` local of the latest tick that called updatePlanets
    pending,      \* number of tick callbacks queued by requestAnimationFrame
    frames,       \* number of renderer.render calls so far
    drawn,        \* what the latest renderer.render call drew: the groups, meshes and sun as they were
    calls,        \* number of updatePlanets calls made by the latest execution of tick
    updates       \* number of updatePlanets calls so far

vars == <<planets, planetGroup, group, mesh, sun, parameters, params, built,
          main, now, time, pending, frames, drawn, calls, updates>>

----------------------------------------------------------------------------
(* Bounds of the model *)

MaxNames == 2      \* how many distinct planet names are used
MaxCreates == 2    \* how many createPlanet calls the setup phase makes
MaxFrames == 3     \* how many frames are run
MaxNow == 1        \* largest value performance.now() returns

NamePool == <<"mercury", "venus", "earth", "mars", "jupiter", "saturn", "uranus", "neptune">>
Names == {NamePool[i] : i \in 1..MaxNames}

----------------------------------------------------------------------------
(* Program constants (thousandths; colours as integers) *)

White == 16777215             \* 0xffffff
DefaultRadius == 1000         \* 1
DefaultAtmosphereThickness == 100   \* 0.1
DefaultAtmosphereOpacity == 200     \* 0.2
DefaultOrbitRadius == 0
DefaultRotationSpeed == 5     \* 0.005
DefaultOrbitSpeed == 1        \* 0.001
SunSpin == 1                  \* 0.001
InitialSpeed == 10            \* parameters.rotationSpeed = 1, in tenths

----------------------------------------------------------------------------
(* JavaScript values: a property of an object literal is either absent     *)
(* (undefined) or given with a value                                       *)

Undefined == [given |-> FALSE, v |-> 0]
UndefinedB == [given |-> FALSE, v |-> FALSE]
Given(x) == [given |-> TRUE, v |-> x]

\* a || d on a number-valued property: undefined and 0 are falsy
OrNum(a, d) == IF a.given /\ a.v # 0 THEN a.v ELSE d

\* a || d on a boolean-valued property: undefined and false are falsy
OrBool(a, d) == IF a.given /\ a.v THEN a.v ELSE d

\* params.atmosphereColor || params.color || 0xffffff
OrNum3(a, b, d) == IF a.given /\ a.v # 0 THEN a.v ELSE OrNum(b, d)

PlanetConfig(p) ==
    [ radius              |-> OrNum(p.radius, DefaultRadius),
      color               |-> OrNum(p.color, White),
      atmosphereColor     |-> OrNum3(p.atmosphereColor, p.color, White),
      atmosphereThickness |-> OrNum(p.atmosphereThickness, DefaultAtmosphereThickness),
      atmosphereOpacity   |-> OrNum(p.atmosphereOpacity, DefaultAtmosphereOpacity),
      orbitRadius         |-> OrNum(p.orbitRadius, DefaultOrbitRadius),
      rotationSpeed       |-> OrNum(p.rotationSpeed, DefaultRotationSpeed),
      orbitSpeed          |-> OrNum(p.orbitSpeed, DefaultOrbitSpeed),
      hasRings            |-> OrBool(p.hasRings, FALSE),
      ringColor           |-> OrNum(p.ringColor, White),
      ringInnerRadius     |-> p.ringInnerRadius,
      ringOuterRadius     |-> p.ringOuterRadius ]

\* the empty object literal {}
EmptyParams ==
    [ radius |-> Undefined, color |-> Undefined, atmosphereColor |-> Undefined,
      atmosphereThickness |-> Undefined, atmosphereOpacity |-> Undefined,
      orbitRadius |-> Undefined, rotationSpeed |-> Undefined, orbitSpeed |-> Undefined,
      hasRings |-> UndefinedB, ringColor |-> Undefined,
      ringInnerRadius |-> Undefined, ringOuterRadius |-> Undefined ]

\* three literals of the planetConfigs table
MercuryParams ==
    [ EmptyParams EXCEPT !.radius = Given(800), !.color = Given(11053224),
      !.orbitRadius = Given(15000), !.orbitSpeed = Given(8), !.rotationSpeed = Given(4) ]

EarthParams ==
    [ EmptyParams EXCEPT !.radius = Given(1400), !.color = Given(2241535),
      !.atmosphereColor = Given(4487167), !.atmosphereOpacity = Given(200),
      !.orbitRadius = Given(45000), !.orbitSpeed = Given(6), !.rotationSpeed = Given(5) ]

SaturnParams ==
    [ EmptyParams EXCEPT !.radius = Given(3500), !.color = Given(15390392),
      !.orbitRadius = Given(90000), !.orbitSpeed = Given(3), !.rotationSpeed = Given(6),
      !.hasRings = Given(TRUE), !.ringColor = Given(12759680),
      !.ringInnerRadius = Given(4500), !.ringOuterRadius = Given(7000) ]

ParamChoices == {MercuryParams, EarthParams, SaturnParams}

\* every partial parameter set over a few values per field: absent, zero / false
\* where the data model allows it, and one other value
Opt(S) == {Undefined} \cup {Given(x) : x \in S}
OptB == {UndefinedB, Given(FALSE), Given(TRUE)}
RingBands == { <<Undefined, Undefined>>, <<Given(4500), Given(7000)>> }
AllParams ==
    { [ radius |-> r, color |-> c, atmosphereColor |-> ac, atmosphereThickness |-> at,
        atmosphereOpacity |-> ao, orbitRadius |-> orad, rotationSpeed |-> rs,
        orbitSpeed |-> os, hasRings |-> hr, ringColor |-> rc,
        ringInnerRadius |-> band[1], ringOuterRadius |-> band[2] ] :
        r \in Opt({800}), c \in Opt({0, 2241535}), ac \in Opt({0, 4487167}),
        at \in Opt({0, 50}), ao \in Opt({0, 500}), orad \in Opt({0, 45000}),
        rs \in Opt({0, 4}), os \in Opt({0, 6}), hr \in OptB,
        rc \in Opt({0, 12759680}), band \in RingBands }

----------------------------------------------------------------------------
(* Map: get / has / set, insertion-ordered, one entry per key *)

MapKeys(m) == {m[i].name : i \in DOMAIN m}
MapHas(m, k) == k \in MapKeys(m)
MapIndex(m, k) == CHOOSE i \in DOMAIN m : m[i].name = k
MapGet(m, k) == m[MapIndex(m, k)].value
MapSet(m, k, val) ==
    IF MapHas(m, k)
    THEN [m EXCEPT ![MapIndex(m, k)] = [name |-> k, value |-> val]]
    ELSE Append(m, [name |-> k, value |-> val])

----------------------------------------------------------------------------
(* Math.cos, Math.sin *)

CosTable == <<1000, 866, 500, 0, -500, -866, -1000, -866, -500, 0, 500, 866>>
SinTable == <<0, 500, 866, 1000, 866, 500, 0, -500, -866, -1000, -866, -500>>
Cos(a) == CosTable[(a % Len(CosTable)) + 1]
Sin(a) == SinTable[(a % Len(SinTable)) + 1]

----------------------------------------------------------------------------
(* SolarSystem.createPlanet *)

\* the children added to the new THREE.Group, in the order of the planet.add calls
PlanetChildren(config) ==
    (IF config.atmosphereOpacity > 0 THEN <<"atmosphere">> ELSE <<>>)
    \o (IF config.hasRings THEN <<"rings">> ELSE <<>>)
    \o <<"mesh">>

\* new THREE.Group(): at the origin, with the children createPlanet adds
NewGroup(config) ==
    [ position |-> [x |-> 0, y |-> 0, z |-> 0], children |-> PlanetChildren(config) ]

\* new THREE.Mesh(planetGeometry, planetMaterial): not rotated
NewMesh(config) ==
    [ rotation |-> [y |-> 0], radius |-> config.radius, color |-> config.color ]

\* this.planets.set(name, {group, config, mesh})
RegistrySetAppending(m, k, val) == Append(m, [name |-> k, value |-> val])
RegistrySet(m, k, val) == MapSet(m, k, val)

\* new PlanetConfig(p), as in the planetConfigs table
NewPlanetConfig(p) ==
    /\ main = "setup"
    /\ built = <<>>
    /\ Len(group) < MaxCreates
    /\ params' = p
    /\ built' = <<PlanetConfig(p)>>
    /\ UNCHANGED <<planets, planetGroup, group, mesh, sun, parameters, main, now,
                   time, pending, frames, drawn, calls, updates>>

\* solarSystem.createPlanet(name, config) with the config just constructed
CreatePlanet(name) ==
    /\ main = "setup"
    /\ built # <<>>
    /\ LET config == built[1]
           id == Len(group) + 1
       IN  /\ group' = Append(group, NewGroup(config))
           /\ mesh' = Append(mesh, NewMesh(config))
           /\ planets' = RegistrySet(planets, name,
                                     [group |-> id, config |-> config, mesh |-> id])
           /\ planetGroup' = Append(planetGroup, [kind |-> "planet", id |-> id])
    /\ built' = <<>>
    /\ UNCHANGED <<sun, parameters, params, main, now, time, pending, frames,
                   drawn, calls, updates>>

----------------------------------------------------------------------------
(* SolarSystem.updatePlanets *)

\* planet.mesh.rotation.y += planet.config.rotationSpeed
RotateMeshAssigning(m, config) == [m EXCEPT !.rotation.y = config.rotationSpeed]
RotateMesh(m, config) == [m EXCEPT !.rotation.y = @ + config.rotationSpeed]

\* angle = time * orbitSpeed; position.x = cos(angle) * orbitRadius; position.z = sin(angle) * orbitRadius
OrbitGroupAccumulating(g, config, t) ==
    [g EXCEPT !.position.x = @ + Cos(t * config.orbitSpeed) * config.orbitRadius,
              !.position.z = @ + Sin(t * config.orbitSpeed) * config.orbitRadius]
OrbitGroupLifting(g, config, t) ==
    [g EXCEPT !.position.x = Cos(t * config.orbitSpeed) * config.orbitRadius,
              !.position.y = config.radius,
              !.position.z = Sin(t * config.orbitSpeed) * config.orbitRadius]
OrbitGroup(g, config, t) ==
    [g EXCEPT !.position.x = Cos(t * config.orbitSpeed) * config.orbitRadius,
              !.position.z = Sin(t * config.orbitSpeed) * config.orbitRadius]

\* this.sun.rotation.y += 0.001
RotateSun(s) == [s EXCEPT !.rotation.y = @ + SunSpin]

\* this.planets.forEach(...): the entries from the i-th on, in insertion order
RECURSIVE ForEachPlanet(_, _, _)
ForEachPlanet(i, s, t) ==
    IF i > Len(planets)
    THEN s
    ELSE LET e == planets[i].value
         IN  ForEachPlanet(i + 1,
                           [s EXCEPT !.mesh[e.mesh] = RotateMesh(@, e.config),
                                     !.group[e.group] = OrbitGroup(@, e.config, t)],
                           t)

\* the scene objects updatePlanets writes
Scene == [group |-> group, mesh |-> mesh, sun |-> sun]

updatePlanets(s, t) ==
    LET s1 == ForEachPlanet(1, s, t)
    IN  [s1 EXCEPT !.sun = RotateSun(@)]

----------------------------------------------------------------------------
(* tick and the GUI *)

\* values of the Speed Multiplier slider (0.1 .. 5 in steps of 0.1), in tenths
SpeedChoices == {1, InitialSpeed, 50}

\* if (parameters.autoRotate)
ShouldUpdateAlways(p) == TRUE
ShouldUpdate(p) == p.autoRotate

\* window.requestAnimationFrame(tick) on a queue holding q callbacks
RequestAnimationFrameTwice(q) == q + 2
RequestAnimationFrame(q) == q + 1

\* renderer.render(scene, camera) of scene objects s
Render(s) == s

\* one execution of tick with performance.now() returning n and q callbacks left queued
TickBody(n, q) ==
    LET upd == ShouldUpdate(parameters)
        t == n * parameters.rotationSpeed
        s1 == IF upd THEN updatePlanets(Scene, t) ELSE Scene
    IN  /\ now' = n
        /\ time' = IF upd THEN t ELSE time
        /\ calls' = IF upd THEN 1 ELSE 0
        /\ updates' = IF upd THEN updates + 1 ELSE updates
        /\ group' = s1.group
        /\ mesh' = s1.mesh
        /\ sun' = s1.sun
        /\ drawn' = Render(s1)
        /\ frames' = frames + 1
        /\ pending' = RequestAnimationFrame(q)
        /\ UNCHANGED <<planets, planetGroup, parameters, params, built>>

\* tick() of line 328: the direct first call, ending the setup
Start ==
    /\ main = "setup"
    /\ built = <<>>
    /\ main' = "loop"
    /\ \E n \in now..MaxNow : TickBody(n, pending)

\* the host runs a queued tick callback
Tick ==
    /\ main = "loop"
    /\ pending > 0
    /\ frames < MaxFrames
    /\ main' = main
    /\ \E n \in now..MaxNow : TickBody(n, pending - 1)

\* the Auto Rotate checkbox, between frames
SetAutoRotate ==
    /\ main = "loop"
    /\ parameters' = [parameters EXCEPT !.autoRotate = ~@]
    /\ UNCHANGED <<planets, planetGroup, group, mesh, sun, params, built, main, now,
                   time, pending, frames, drawn, calls, updates>>

\* the Speed Multiplier slider, between frames
SetRotationSpeed(m) ==
    /\ main = "loop"
    /\ m # parameters.rotationSpeed
    /\ parameters' = [parameters EXCEPT !.rotationSpeed = m]
    /\ UNCHANGED <<planets, planetGroup, group, mesh, sun, params, built, main, now,
                   time, pending, frames, drawn, calls, updates>>

----------------------------------------------------------------------------
(* Specifications *)

Init ==
    /\ planets = <<>>
    /\ planetGroup = << [kind |-> "sun", id |-> 0], [kind |-> "orbitLines", id |-> 0] >>
    /\ group = <<>>
    /\ mesh = <<>>
    /\ sun = [rotation |-> [y |-> 0]]
    /\ parameters = [autoRotate |-> TRUE, rotationSpeed |-> InitialSpeed]
    /\ params = EmptyParams
    /\ built = <<>>
    /\ main = "setup"
    /\ now = 0
    /\ time = 0
    /\ pending = 0
    /\ frames = 0
    /\ drawn = [group |-> <<>>, mesh |-> <<>>, sun |-> [rotation |-> [y |-> 0]]]
    /\ calls = 0
    /\ updates = 0

Next ==
    \/ \E p \in ParamChoices : NewPlanetConfig(p)
    \/ \E name \in Names : CreatePlanet(name)
    \/ Start
    \/ Tick
    \/ SetAutoRotate
    \/ \E m \in SpeedChoices : SetRotationSpeed(m)

Spec == Init /\ [][Next]_vars

\* PlanetConfig and createPlanet on every partial parameter set
InitConfig ==
    /\ planets = <<>>
    /\ planetGroup = << [kind |-> "sun", id |-> 0], [kind |-> "orbitLines", id |-> 0] >>
    /\ group = <<>>
    /\ mesh = <<>>
    /\ sun = [rotation |-> [y |-> 0]]
    /\ parameters = [autoRotate |-> TRUE, rotationSpeed |-> InitialSpeed]
    /\ params \in AllParams
    /\ built = <<>>
    /\ main = "setup"
    /\ now = 0
    /\ time = 0
    /\ pending = 0
    /\ frames = 0
    /\ drawn = [group |-> <<>>, mesh |-> <<>>, sun |-> [rotation |-> [y |-> 0]]]
    /\ calls = 0
    /\ updates = 0

\* new PlanetConfig(params) on the parameter set chosen initially
Construct ==
    /\ planets = <<>>
    /\ NewPlanetConfig(params)

NextConfig ==
    \/ Construct
    \/ \E name \in Names : CreatePlanet(name)

SpecConfig == InitConfig /\ [][NextConfig]_vars

----------------------------------------------------------------------------
(* Properties *)

\* the registry's entries
Entries == {planets[i].value : i \in DOMAIN planets}

\* the planet drawables attached to planetGroup
PlanetDrawables == {planetGroup[i].id : i \in {j \in DOMAIN planetGroup : planetGroup[j].kind = "planet"}}

\* C1: after updatePlanets(t) every registered body is at x = R*cos(S*t),
\* z = R*sin(S*t), y = 0 for the latest t, whatever calls came before.
C1_PositionIsClosedForm ==
    updates > 0 =>
        \A e \in Entries :
            group[e.group].position =
                [ x |-> e.config.orbitRadius * Cos(e.config.orbitSpeed * time),
                  y |-> 0,
                  z |-> e.config.orbitRadius * Sin(e.config.orbitSpeed * time) ]

\* C1 witness: two or more updates have run and a body stands off both axes' zero.
C1_Witness ==
    /\ updates >= 2
    /\ \E e \in Entries : group[e.group].position.x # 0 /\ group[e.group].position.z # 0

C3_PausedFramesFreeze ==
    [][ ~parameters.autoRotate =>
            /\ group' = group /\ mesh' = mesh /\ sun' = sun
            /\ updates' = updates
            /\ frames' # frames =>
                   /\ frames' = frames + 1
                   /\ calls' = 0
                   /\ drawn' = Scene
                   /\ pending' = 1 ]_vars

\* C3 witness: autoRotate is off, a frame was run without an update, after an
\* earlier update that moved a body.
C3_Witness ==
    /\ ~parameters.autoRotate
    /\ calls = 0
    /\ updates >= 1
    /\ frames >= updates + 2
    /\ \E e \in Entries : group[e.group].position.z # 0

\* C4: a createPlanet call leaves one entry per name used so far, and the entry
\* of the name it was given holds the config and the drawable of that call; the
\* other entries are as they were.
C4_OneEntryPerName ==
    [][ Len(group') # Len(group) =>
            \E n \in Names :
                /\ MapKeys(planets') = MapKeys(planets) \cup {n}
                /\ Cardinality(MapKeys(planets')) = Len(planets')
                /\ Cardinality({i \in DOMAIN planets' : planets'[i].name = n}) = 1
                /\ MapGet(planets', n) =
                       [group |-> Len(group'), config |-> built[1], mesh |-> Len(mesh')]
                /\ \A k \in MapKeys(planets) \ {n} :
                       MapGet(planets', k) = MapGet(planets, k) ]_vars

\* C4 witness: a name was registered twice with different configs, and the
\* registry holds the later one.
C4_Witness ==
    /\ Len(group) = 2
    /\ Len(planets) = 1
    /\ built = <<>>
    /\ planets[1].value.group = 2
    /\ planets[1].value.config = PlanetConfig(params)
    /\ planets[1].value.config.radius # mesh[1].radius

\* C5: every field of the constructed config is the supplied value when the
\* field is supplied and its default when it is omitted.
C5_SuppliedOrDefault ==
    built # <<>> =>
        LET c == built[1]
            Field(a, got, d) == got = IF a.given THEN a.v ELSE d
        IN  /\ Field(params.radius, c.radius, DefaultRadius)
            /\ Field(params.color, c.color, White)
            /\ Field(params.atmosphereThickness, c.atmosphereThickness, DefaultAtmosphereThickness)
            /\ Field(params.atmosphereOpacity, c.atmosphereOpacity, DefaultAtmosphereOpacity)
            /\ Field(params.orbitRadius, c.orbitRadius, DefaultOrbitRadius)
            /\ Field(params.rotationSpeed, c.rotationSpeed, DefaultRotationSpeed)
            /\ Field(params.orbitSpeed, c.orbitSpeed, DefaultOrbitSpeed)
            /\ Field(params.hasRings, c.hasRings, FALSE)
            /\ Field(params.ringColor, c.ringColor, White)

\* C6: with atmosphereColor omitted and color given, the constructed config's
\* atmosphereColor is the given color.
C6_AtmosphereColorFollowsColor ==
    (built # <<>> /\ ~params.atmosphereColor.given /\ params.color.given) =>
        built[1].atmosphereColor = params.color.v

\* C7: a body built from a parameter set with atmosphereOpacity = 0 has no
\* atmosphere shell in its group; one with atmosphereOpacity > 0 has exactly one.
C7_ZeroOpacityNoAtmosphere ==
    \A e \in Entries :
        LET shells == Cardinality({i \in DOMAIN group[e.group].children :
                                       group[e.group].children[i] = "atmosphere"})
        IN  params.atmosphereOpacity.given =>
                shells = IF params.atmosphereOpacity.v > 0 THEN 1 ELSE 0

\* C8: a tick calls updatePlanets at most once, draws the scene as that call
\* left it, and leaves exactly one tick callback queued: never more than one is
\* pending, and once the loop has started one is always pending.
C8_OneTickPerFrame ==
    /\ pending <= 1
    /\ calls <= 1
    /\ updates <= frames
    /\ main = "setup" => (pending = 0 /\ frames = 0)
    /\ main = "loop" => (pending = 1 /\ frames >= 1 /\ drawn = Scene)

\* C8 witness: three frames were run, the latest one with an update that moved a body.
C8_Witness ==
    /\ frames >= 3
    /\ calls = 1
    /\ pending = 1
    /\ \E e \in Entries : drawn.group[e.group].position.z # 0

\* C9: updatePlanets leaves the registry (names, configs, object identities),
\* the scene graph, every group's children and position.y and everything of a
\* mesh but rotation.y unchanged, and advances the sun's rotation.y by 0.001.
C9_UpdateTouchesOnlyTransforms ==
    [][ updates' # updates =>
            /\ planets' = planets
            /\ planetGroup' = planetGroup
            /\ DOMAIN group' = DOMAIN group /\ DOMAIN mesh' = DOMAIN mesh
            /\ \A i \in DOMAIN group :
                   group'[i] = [group[i] EXCEPT !.position.x = group'[i].position.x,
                                                !.position.z = group'[i].position.z]
            /\ \A i \in DOMAIN mesh :
                   mesh'[i] = [mesh[i] EXCEPT !.rotation.y = mesh'[i].rotation.y]
            /\ sun' = [rotation |-> [y |-> sun.rotation.y + SunSpin]] ]_vars

\* C9 witness: updates ran at speed multipliers other than 1 and at a nonzero
\* time, with a body registered.
C9_Witness ==
    /\ updates >= 2
    /\ parameters.rotationSpeed # InitialSpeed
    /\ time # 0
    /\ sun.rotation.y = updates * SunSpin
    /\ Entries # {}

\* C10: the planet drawables attached to planetGroup are exactly the groups of
\* the registry's entries.
C10_SceneMatchesRegistry ==
    PlanetDrawables = {e.group : e \in Entries}

====
